---- MODULE Spec2Model ----
(***************************************************************************)
(* The log-rank tests of lifelines/statistics.py and their result          *)
(* container: multivariate_logrank_test (the engine), logrank_test and      *)
(* pairwise_logrank_test (the wrappers), StatisticalResult.__add__.         *)
(*                                                                         *)
(* Numbers.  A float is modelled as an exact rational <<n, d>> in lowest    *)
(* terms with d > 0, or one of the three IEEE specials: <<1, 0>> (+inf),    *)
(* <<-1, 0>> (-inf), <<0, 0>> (nan).  Rounding is not modelled.             *)
(* An optional argument is None (the empty tuple) or Some(x) = <<x>>.       *)
(* A name is the tuple of its parts: <<g1, g2>> for a pair, <<x>> for a     *)
(* scalar.                                                                 *)
(***************************************************************************)
EXTENDS Integers, Sequences, FiniteSets, TLC

VARIABLES op, inp, pc, out

vars == <<op, inp, pc, out>>

(***************************** bounds **************************************)
\* multivariate_logrank_test: individuals, times, group labels 0..MaxLabel
MaxN == 3

MaxT == 3

MaxLabel == 2

\* logrank_test: individuals per sample, times
MaxArm == 2

MaxArmT == 2

\* logrank_test with flags of another length: individuals per sample
MaxFlagsN == 2

\* pairwise_logrank_test: individuals, times, group labels 0..MaxPairLabel
MaxPairN == 3

MaxPairT == 2

MaxPairLabel == 2

\* arrays of unequal lengths
MaxLenN == 3

\* confidence levels outside (0, 1]: individuals, group labels 0..MaxAlphaLabel
MaxAlphaN == 3

MaxAlphaLabel == 2

\* results added: entries of each operand, names <<1>>..<<MaxName>>
MaxEntries == 2

MaxName == 2

(************************* optional values *********************************)
None == << >>
Some(x) == << x >>

\* e, once every component of the tuple v has been computed in turn: TLC
\* evaluates definitions on demand, and computing the stages of a long
\* calculation in their order keeps its evaluation shallow
Eager(v, e) == IF v = v THEN e ELSE e

(************************ float arithmetic *********************************)
Abs(x) == IF x < 0 THEN -x ELSE x

RECURSIVE GCD(_, _)
GCD(a, b) == IF b = 0 THEN a ELSE GCD(b, a % b)

Sign(x) == IF x < 0 THEN -1 ELSE IF x = 0 THEN 0 ELSE 1

\* the float n/d of two integers: 0/0 is nan, x/0 is +-inf
Rat(n, d) ==
    IF d = 0 THEN << Sign(n), 0 >>
    ELSE LET g == GCD(Abs(n), Abs(d))
             s == Sign(d)
         IN  << (s * n) \div g, (s * d) \div g >>

FInt(n) == << n, 1 >>
Zero == << 0, 1 >>
One == << 1, 1 >>
Inf == << 1, 0 >>
NaN == << 0, 0 >>

IsNaN(x) == x[2] = 0 /\ x[1] = 0
IsInf(x) == x[2] = 0 /\ x[1] # 0
IsFinite(x) == x[2] # 0

FNeg(x) == << -x[1], x[2] >>

FMul(x, y) ==
    IF IsNaN(x) \/ IsNaN(y) THEN NaN
    ELSE IF IsInf(x) \/ IsInf(y)
         THEN << Sign(x[1]) * Sign(y[1]), 0 >>
         ELSE LET g == GCD(Abs(x[1]), y[2])
                  h == GCD(Abs(y[1]), x[2])
              IN  Rat((x[1] \div g) * (y[1] \div h), (x[2] \div h) * (y[2] \div g))

FDiv(x, y) ==
    IF IsNaN(x) \/ IsNaN(y) THEN NaN
    ELSE IF IsInf(x) THEN (IF IsInf(y) THEN NaN
                           ELSE << x[1] * (IF y[1] < 0 THEN -1 ELSE 1), 0 >>)
    ELSE IF IsInf(y) THEN Zero
    ELSE IF y[1] = 0 THEN << Sign(x[1]), 0 >>
    ELSE FMul(x, Rat(y[2], y[1]))

FAdd(x, y) ==
    IF IsNaN(x) \/ IsNaN(y) THEN NaN
    ELSE IF IsInf(x) THEN (IF IsInf(y) /\ y[1] # x[1] THEN NaN ELSE x)
    ELSE IF IsInf(y) THEN y
    ELSE LET g == GCD(x[2], y[2])
         IN  Rat(x[1] * (y[2] \div g) + y[1] * (x[2] \div g), (x[2] \div g) * y[2])

FSub(x, y) == FAdd(x, FNeg(y))

\* x < y for floats; every comparison with nan is false
FLess(x, y) ==
    /\ ~IsNaN(x) /\ ~IsNaN(y)
    /\ IF IsInf(x) THEN x[1] < 0 /\ y # x
       ELSE IF IsInf(y) THEN y[1] > 0
       ELSE x[1] * y[2] < y[1] * x[2]

FLeq(x, y) == ~IsNaN(x) /\ ~IsNaN(y) /\ (x = y \/ FLess(x, y))

FAbs(x) == << Abs(x[1]), x[2] >>

\* the sum of f[i] over i in 1..n, left to right
FSum(f, n) ==
    LET partial[i \in 0..n] == IF i = 0 THEN Zero ELSE FAdd(partial[i - 1], f[i])
    IN  Eager(f, partial[n])

\* the sum of the integers f[i] over i in 1..n
ISum(f, n) ==
    LET partial[i \in 0..n] == IF i = 0 THEN 0 ELSE partial[i - 1] + f[i]
    IN  Eager(f, partial[n])

(************************ sequences ****************************************)
Range(s) == { s[i] : i \in 1..Len(s) }

SetMin(S) == CHOOSE x \in S : \A y \in S : x <= y

\* the elements of a finite set of integers, ascending
RECURSIVE SortedSeq(_)
SortedSeq(S) ==
    IF S = {} THEN << >>
    ELSE LET m == SetMin(S) IN << m >> \o SortedSeq(S \ {m})

\* np.ones(n)
Ones(n) == [i \in 1..n |-> 1]

\* np.zeros(n, dtype=int)
Zeros(n) == [i \in 1..n |-> 0]

\* x.loc[mask], np.array(x)[mask]: the entries of x where mask is true, in order
RECURSIVE Loc(_, _)
Loc(x, mask) ==
    IF x = << >> THEN << >>
    ELSE LET rest == Loc(Tail(x), Tail(mask))
         IN  IF Head(mask) THEN << Head(x) >> \o rest ELSE rest

\* groups.unique(): the labels in order of first appearance
RECURSIVE Unique(_)
Unique(s) ==
    IF s = << >> THEN << >>
    ELSE LET init == Unique(SubSeq(s, 1, Len(s) - 1))
             x == s[Len(s)]
         IN  IF x \in Range(init) THEN init ELSE Append(init, x)

(********************* the survival table builder **************************)
\* group_survival_table_from_events(groups, durations, censorship, limit) of
\* lifelines.utils, imported by statistics.py and modelled from its contract:
\* one row per distinct duration, ascending, cut at the horizon unless it is
\* -1; one column per group; rm counts the individuals of the group leaving
\* at that time, obs those of them whose event was observed.
group_survival_table_from_events(groups, durations, censorship, limit) ==
    LET n == Len(durations)
        unique_groups == Unique(groups)
        times == SortedSeq({ durations[i] : i \in
                     { i \in 1..n : limit = -1 \/ durations[i] <= limit } })
        who(r, j) == { i \in 1..n : /\ durations[i] = times[r]
                                    /\ groups[i] = unique_groups[j] }
    IN  [ unique_groups |-> unique_groups,
          times |-> times,
          rm  |-> [r \in 1..Len(times) |-> [j \in 1..Len(unique_groups) |->
                       Cardinality(who(r, j))]],
          obs |-> [r \in 1..Len(times) |-> [j \in 1..Len(unique_groups) |->
                       Cardinality({ i \in who(r, j) : censorship[i] # 0 })]] ]

(************************** numeric primitives *****************************)
\* the n-by-m product of the n-by-k matrix A and the k-by-m matrix B
MatMul(A, B, n, k, m) ==
    Eager(<< A, B >>,
      [i \in 1..n |-> [j \in 1..m |->
          FSum([q \in 1..k |-> FMul(A[i][q], B[q][j])], k)]])

\* the m-by-n transpose of the n-by-m matrix A
Transpose(A, n, m) == [j \in 1..m |-> [i \in 1..n |-> A[i][j]]]

\* the first row after the first rank rows with an entry in column c, or 0
PivotRow(M, rows, c, rank) ==
    IF \E r \in (rank + 1)..rows : M[r][c] # Zero
    THEN SetMin({ r \in (rank + 1)..rows : M[r][c] # Zero })
    ELSE 0

\* row p, scaled to pr, becomes row rk and column c is cleared in the others
RrefClear(M, rows, cols, c, p, rk, pr) ==
    Eager(pr,
      [r \in 1..rows |->
          IF r = rk THEN pr
          ELSE [j \in 1..cols |->
                  FSub((IF r = p THEN M[rk] ELSE M[r])[j],
                       FMul((IF r = p THEN M[rk] ELSE M[r])[c], pr[j]))]])

RrefAt(st, rows, cols, c, p) ==
    IF p = 0 THEN st
    ELSE [M |-> RrefClear(st.M, rows, cols, c, p, st.rank + 1,
                          [j \in 1..cols |-> FDiv(st.M[p][j], st.M[p][c])]),
          rank |-> st.rank + 1,
          pivots |-> Append(st.pivots, c)]

RrefColumn(st, rows, cols, c) ==
    Eager(st, RrefAt(st, rows, cols, c, PivotRow(st.M, rows, c, st.rank)))

\* Gauss-Jordan elimination on the columns 1..upto of the rows-by-cols matrix
\* M: the reduced matrix, its rank and its pivot columns
Rref(M, rows, cols, upto) ==
    LET st[c \in 0..upto] ==
            IF c = 0 THEN [M |-> M, rank |-> 0, pivots |-> << >>]
            ELSE RrefColumn(st[c - 1], rows, cols, c)
    IN  st[upto]

\* the right half of the reduced [A | I]
InverseOf(st, m) == Eager(st, [i \in 1..m |-> [j \in 1..m |-> st.M[i][m + j]]])

\* the inverse of the nonsingular m-by-m matrix A
Inverse(A, m) ==
    InverseOf(Rref([i \in 1..m |-> [j \in 1..(2 * m) |->
                       IF j <= m THEN A[i][j]
                       ELSE IF j = m + i THEN One ELSE Zero]],
                   m, 2 * m, m), m)

\* A = C F with C the pivot columns of A (m-by-r) and F the rows of its
\* reduced form (r-by-m): the pseudo-inverse is F' (F F')^-1 (C' C)^-1 C'
PinvFactors(m, r, C, F) ==
    Eager(<< C, F >>,
      MatMul(Transpose(F, r, m),
             MatMul(MatMul(Inverse(MatMul(F, Transpose(F, r, m), r, m, r), r),
                           Inverse(MatMul(Transpose(C, m, r), C, r, m, r), r),
                           r, r, r),
                    Transpose(C, m, r), r, r, m),
             m, r, m))

PinvOfRank(A, m, st) ==
    Eager(st,
      IF st.rank = m THEN Inverse(A, m)
      ELSE IF st.rank = 0 THEN [i \in 1..m |-> [j \in 1..m |-> Zero]]
      ELSE PinvFactors(m, st.rank,
                       [i \in 1..m |-> [q \in 1..st.rank |-> A[i][st.pivots[q]]]],
                       [q \in 1..st.rank |-> st.M[q]]))

\* np.linalg.pinv(A) of the m-by-m matrix A: the Moore-Penrose inverse, which
\* is the inverse when A is nonsingular
pinv(A, m) == PinvOfRank(A, m, Rref(A, m, m, m))

\* x . M . x for a vector x of m entries and an m-by-m matrix M
QuadraticForm(x, M, m) ==
    Eager(<< x, M >>,
      FSum([j \in 1..m |->
              FMul(FSum([i \in 1..m |-> FMul(x[i], M[i][j])], m), x[j])], m))

\* stats.chi2.sf(U, degrees_freedom), kept as a term: equal terms, equal values
ChiSf(U, degrees_freedom) == [sf |-> "chi2", at |-> U, df |-> degrees_freedom]

\* chisq_test(U, degrees_freedom, alpha): the p-value, and the level the
\* significance decision compares it with (p_value < 1 - alpha)
chisq_test(U, degrees_freedom, alpha) ==
    [below |-> FSub(One, alpha), p_value |-> ChiSf(U, degrees_freedom)]

(************************* StatisticalResult *******************************)
\* a raised exception: no result
Raise(e) == [status |-> "error", error |-> e, result |-> None]

\* StatisticalResult.__init__(p_value, test_statistic, name, **kwargs), with
\* p_value and test_statistic already sequences (_to_array) and name None or
\* Some(list) (_to_list)
StatisticalResult(p_value, test_statistic, name, kwargs) ==
    IF Len(p_value) # Len(test_statistic)
    THEN Raise("AssertionError")
    ELSE IF name # None /\ Len(name[1]) # Len(test_statistic)
    THEN Raise("AssertionError")
    ELSE [status |-> "ok", error |-> "",
          result |-> Some([_p_value |-> p_value,
                           _test_statistic |-> test_statistic,
                           name |-> name,
                           _kwargs |-> kwargs])]

\* the keyword arguments left for **kwargs once name is bound to its parameter
WithoutName(kwargs) == [key \in DOMAIN kwargs \ {"name"} |-> kwargs[key]]

NameOf(kwargs) == IF "name" \in DOMAIN kwargs THEN Some(kwargs["name"]) ELSE None

\* dict(list(a.items()) + list(b.items())): b's value wins on a shared key
MergeKwargs(a, b) ==
    [key \in DOMAIN a \cup DOMAIN b |-> IF key \in DOMAIN b THEN b[key] ELSE a[key]]

\* self + other
StatisticalResult__add__(self, other) ==
    IF self.name = None \/ other.name = None
    THEN Raise("TypeError: unsupported operand type(s) for +")
    ELSE StatisticalResult(self._p_value \o other._p_value,
                           self._test_statistic \o other._test_statistic,
                           Some(self.name[1] \o other.name[1]),
                           MergeKwargs(self._kwargs, other._kwargs))

(********************* multivariate_logrank_test ***************************)
\* N_j = obs.sum(0).values
N_j(obs, R, k) == [j \in 1..k |-> ISum([r \in 1..R |-> obs[r][j]], R)]

\* n_ij = rm.sum(0).values - rm.cumsum(0).shift(1).fillna(0)
n_ij(rm, R, k) ==
    [r \in 1..R |-> [j \in 1..k |->
        ISum([q \in 1..R |-> rm[q][j]], R) - ISum([q \in 1..R |-> rm[q][j]], r - 1)]]

\* d_i = obs.sum(1)
d_i(obs, R, k) == [r \in 1..R |-> ISum(obs[r], k)]

\* those removed at each step, in place of those at risk at it
RemovedAtStep(rm, R, k) == [r \in 1..R |-> ISum(rm[r], k)]

\* n_i = rm.values.sum() - rm.sum(1).cumsum().shift(1).fillna(0)
n_i(rm, R, k) ==
    [r \in 1..R |-> ISum([q \in 1..R |-> ISum(rm[q], k)], R)
                    - ISum([q \in 1..R |-> ISum(rm[q], k)], r - 1)]

\* ev = n_ij.mul(d_i / n_i, axis="index").sum(0)
ev(nij, di, ni, R, k) ==
    [j \in 1..k |->
        FSum([r \in 1..R |-> FMul(FInt(nij[r][j]), FDiv(FInt(di[r]), FInt(ni[r])))], R)]

\* Z_j = N_j - ev
Z_j(Nj, e, k) == [j \in 1..k |-> FSub(FInt(Nj[j]), e[j])]

\* the ratio with inf and nan left in
KeepInfNaN(x) == x

\* .replace([np.inf, np.nan], 1)
ReplaceInfNaN(x) == IF x = Inf \/ IsNaN(x) THEN One ELSE x

\* one row of factor = ((n_i - d_i) / (n_i - 1)).replace([np.inf, np.nan], 1) * d_i / n_i ** 2
factor(ni, di) ==
    FDiv(FMul(ReplaceInfNaN(FDiv(FInt(ni - di), FInt(ni - 1))), FInt(di)),
         FInt(ni * ni))

\* V_ = n_ij.mul(np.sqrt(factor), axis="index").fillna(0) holds x * sqrt(f);
\* FillNa0(x, f) is x where that entry is a number and 0 where it is nan
\* (np.sqrt of a negative number is nan)
FillNa0(x, f) == IF FLess(f, Zero) \/ IsNaN(FMul(FInt(x), f)) THEN 0 ELSE x

\* one term of np.dot(V_.T, V_): the product of the entries x * sqrt(f) and
\* y * sqrt(f) of one row of V_, nan entries filled with 0
ScaledProduct(x, y, f) ==
    IF IsNaN(f) \/ FLess(f, Zero) THEN Zero
    ELSE FMul(FInt(FillNa0(x, f) * FillNa0(y, f)), f)

\* V = -np.dot(V_.T, V_) with n_ij["_"] = n_i.values as column k + 1
NegGram(nij, ni, fac, R, k) ==
    [a \in 1..(k + 1) |-> [b \in 1..(k + 1) |->
        FNeg(FSum([r \in 1..R |->
            ScaledProduct(IF a = k + 1 THEN ni[r] ELSE nij[r][a],
                          IF b = k + 1 THEN ni[r] ELSE nij[r][b], fac[r])], R))]]

\* the last row and column dropped without the diagonal correction
KeepDiagonal(G, k) == Eager(G, [a \in 1..k |-> [b \in 1..k |-> G[a][b]]])

\* ix = np.arange(n_groups); V[ix, ix] = V[ix, ix] - V[-1, ix]; V = V[:-1, :-1]
CorrectDiagonal(G, k) ==
    Eager(G,
      [a \in 1..k |-> [b \in 1..k |->
          IF a = b THEN FSub(G[a][a], G[k + 1][a]) ELSE G[a][b]]])

\* V[:-1, :-1] of the k-by-k matrix
DropLast(V, k) == [a \in 1..(k - 1) |-> [b \in 1..(k - 1) |-> V[a][b]]]

\* the factors of lines 401-425, computed in the order of the source
FactorsU(t, k, R, Nj, nij, di, ni, e, fac, Z, V, Vr, Vp) ==
    Eager(Vp,
      [unique_groups |-> t.unique_groups, n_groups |-> k, rows |-> R,
       N_j |-> Nj, n_ij |-> nij, d_i |-> di, n_i |-> ni, ev |-> e, Z_j |-> Z,
       factor |-> fac, V |-> V, V_reduced |-> Vr,
       U |-> QuadraticForm(Z, Vp, k - 1)])

FactorsPinv(t, k, R, Nj, nij, di, ni, e, fac, Z, V, Vr) ==
    Eager(Vr, FactorsU(t, k, R, Nj, nij, di, ni, e, fac, Z, V, Vr, pinv(Vr, k - 1)))

FactorsV(t, k, R, Nj, nij, di, ni, e, fac, Z, V) ==
    Eager(<< Z, V >>,
      FactorsPinv(t, k, R, Nj, nij, di, ni, e, fac, Z, V, DropLast(V, k)))

FactorsZ(t, k, R, Nj, nij, di, ni, e, fac) ==
    Eager(<< e, fac >>,
      FactorsV(t, k, R, Nj, nij, di, ni, e, fac, Z_j(Nj, e, k),
               CorrectDiagonal(NegGram(nij, ni, fac, R, k), k)))

FactorsEv(t, k, R, Nj, nij, di, ni) ==
    Eager(<< Nj, nij, di, ni >>,
      FactorsZ(t, k, R, Nj, nij, di, ni, ev(nij, di, ni, R, k),
               [r \in 1..R |-> factor(ni[r], di[r])]))

FactorsCounts(t, k, R) ==
    FactorsEv(t, k, R, N_j(t.obs, R, k), n_ij(t.rm, R, k),
              d_i(t.obs, R, k), n_i(t.rm, R, k))

\* the factors computed from the survival table t
LogrankFactors(t) ==
    Eager(t, FactorsCounts(t, Len(t.unique_groups), Len(t.times)))

\* what a call of the engine leaves: the exception or the result, whether the
\* survival table was built, and the factors computed on the way
EngineRaise(e) == [status |-> "error", error |-> e, result |-> None,
                   table_built |-> FALSE, factors |-> None]

\* lines 427-432: the test and the result
EngineResult(f, r) ==
    [status |-> r.status, error |-> r.error, result |-> r.result,
     table_built |-> TRUE, factors |-> Some(f)]

\* lines 413-432, after the factors
EngineTest(f, alpha, t_0, kwargs) ==
    Eager(f,
      IF ~FLess(FAbs(FSum(f.Z_j, f.n_groups)), Rat(1, 10000000))
      THEN [status |-> "error", error |-> "AssertionError: Sum is not zero.",
            result |-> None, table_built |-> TRUE, factors |-> Some(f)]
      ELSE EngineResult(f,
             StatisticalResult(
                << chisq_test(f.U, f.n_groups - 1, alpha).p_value >>, << f.U >>,
                NameOf(kwargs),
                MergeKwargs([t_0 |-> t_0, alpha |-> alpha,
                             null_distribution |-> "chi squared",
                             df |-> f.n_groups - 1],
                            WithoutName(kwargs)))))

\* the arrays cut to their common length in place of the two length checks
LenientReshape(durations, groups, censorship, alpha, t_0, kwargs) ==
    EngineTest(
      LogrankFactors(
        group_survival_table_from_events(
          SubSeq(groups, 1, SetMin({Len(durations), Len(groups), Len(censorship)})),
          SubSeq(durations, 1, SetMin({Len(durations), Len(groups), Len(censorship)})),
          SubSeq(censorship, 1, SetMin({Len(durations), Len(groups), Len(censorship)})),
          t_0)),
      alpha, t_0, kwargs)

\* lines 394-400: the lengths, the reshape, the table
EngineReshape(durations, groups, censorship, alpha, t_0, kwargs) ==
    IF Len(durations) # Len(censorship)
    THEN EngineRaise("AssertionError: inputs must be of the same length.")
    ELSE IF Len(groups) # Len(durations)
    THEN EngineRaise("ValueError: cannot reshape array")
    ELSE EngineTest(
           LogrankFactors(
             group_survival_table_from_events(groups, durations, censorship, t_0)),
           alpha, t_0, kwargs)

multivariate_logrank_test(durations, groups, censorship, alpha, t_0, kwargs) ==
    IF ~(FLess(Zero, alpha) /\ FLeq(alpha, One))
    THEN EngineRaise("ValueError: alpha parameter must be between 0 and 1.")
    ELSE EngineReshape(durations, groups,
                       IF censorship = None THEN Ones(Len(durations))
                       ELSE censorship[1],
                       alpha, t_0, kwargs)

(****************************** logrank_test *******************************)
\* the concatenated arrays with every individual taken as observed
ArraysAllObserved(durations_A, durations_B, censorship_A, censorship_B) ==
    [durations  |-> durations_A \o durations_B,
     groups     |-> Zeros(Len(durations_A)) \o Ones(Len(durations_B)),
     censorship |-> Ones(Len(durations_A) + Len(durations_B))]

\* the arrays logrank_test hands to the engine (lines 215-223)
LogrankArrays(durations_A, durations_B, censorship_A, censorship_B) ==
    [durations  |-> durations_A \o durations_B,
     groups     |-> Zeros(Len(durations_A)) \o Ones(Len(durations_B)),
     censorship |->
        (IF censorship_A = None THEN Ones(Len(durations_A)) ELSE censorship_A[1])
        \o (IF censorship_B = None THEN Ones(Len(durations_B)) ELSE censorship_B[1])]

\* the engine's outcome r, and the call made of the engine
LogrankOutcome(a, alpha, t_0, kwargs, r) ==
    [status |-> r.status, error |-> r.error, result |-> r.result,
     table_built |-> r.table_built, factors |-> r.factors,
     call |-> [durations |-> a.durations, groups |-> a.groups,
               censorship |-> a.censorship, alpha |-> alpha, t_0 |-> t_0,
               kwargs |-> kwargs]]

\* line 224
LogrankCall(a, alpha, t_0, kwargs) ==
    Eager(a,
      LogrankOutcome(a, alpha, t_0, kwargs,
        multivariate_logrank_test(a.durations, a.groups, Some(a.censorship),
                                  alpha, t_0, kwargs)))

logrank_test(durations_A, durations_B, censorship_A, censorship_B, alpha, t_0, kwargs) ==
    LogrankCall(LogrankArrays(durations_A, durations_B, censorship_A, censorship_B),
                alpha, t_0, kwargs)

(************************* pairwise_logrank_test ***************************)
\* the distinct labels in the order they first appear
FirstAppearance(groups) == Unique(groups)

\* np.unique(groups): the distinct labels, ascending
np_unique(groups) == SortedSeq(Range(groups))

\* the pairs <<i1, i2>> of 1..k with i1 < i2 that come before p in
\* lexicographic order
PairsBefore(p, k) ==
    Cardinality({ q \in (1..k) \X (1..k) :
        q[1] < q[2] /\ (q[1] < p[1] \/ (q[1] = p[1] /\ q[2] < p[2])) })

\* list(combinations(np.arange(k), 2)), the indices counted from 1
combinations2(k) ==
    [r \in 1..((k * (k - 1)) \div 2) |->
        CHOOSE p \in (1..k) \X (1..k) : p[1] < p[2] /\ PairsBefore(p, k) = r - 1]

\* the adjustment dividing by the number of groups, not of pairs
AlphaPerGroup(alpha, n_unique_groups) ==
    FSub(One, FDiv(FSub(One, alpha), FInt(n_unique_groups)))

\* if bonferroni: m = 0.5 * k * (k - 1); alpha = 1 - (1 - alpha) / m
BonferroniAlpha(alpha, n_unique_groups) ==
    FSub(One, FDiv(FSub(One, alpha), Rat(n_unique_groups * (n_unique_groups - 1), 2)))

\* groups == g
Mask(groups, g) == [i \in 1..Len(groups) |-> groups[i] = g]

\* result += sub: acc holds the outcome so far and the calls made
PairwiseAdd(acc, sub, sum) ==
    [status |-> sum.status, error |-> sum.error, result |-> sum.result,
     table_built |-> TRUE, calls |-> Append(acc.calls, sub.call)]

PairwiseSub(acc, sub) ==
    Eager(sub,
      IF sub.status # "ok"
      THEN [status |-> sub.status, error |-> sub.error, result |-> None,
            table_built |-> acc.table_built \/ sub.table_built,
            calls |-> Append(acc.calls, sub.call)]
      ELSE PairwiseAdd(acc, sub,
                       StatisticalResult__add__(acc.result[1], sub.result[1])))

\* lines 301-313 for the groups g1 and g2
PairwiseTest(acc, g1, g2, durations, groups, censorship, alpha, t_0, bonferroni, kwargs) ==
    PairwiseSub(acc,
      logrank_test(Loc(durations, Mask(groups, g1)), Loc(durations, Mask(groups, g2)),
                   Some(Loc(censorship, Mask(groups, g1))),
                   Some(Loc(censorship, Mask(groups, g2))),
                   alpha, t_0,
                   MergeKwargs(kwargs, [use_bonferroni |-> bonferroni,
                                        name |-> << << g1, g2 >> >>])))

\* one turn of the loop of lines 300-313
PairwiseStep(acc, pair, unique_groups, durations, groups, censorship, alpha, t_0, bonferroni, kwargs) ==
    IF acc.status # "ok" THEN acc
    ELSE PairwiseTest(acc, unique_groups[pair[1]], unique_groups[pair[2]],
                      durations, groups, censorship, alpha, t_0, bonferroni, kwargs)

\* lines 298-315
PairwiseLoop(pairs, unique_groups, durations, groups, censorship, alpha, t_0, bonferroni, kwargs) ==
    LET acc[i \in 0..Len(pairs)] ==
            IF i = 0
            THEN [status |-> "ok", error |-> "",
                  result |-> StatisticalResult(<< >>, << >>, Some(<< >>), << >>).result,
                  table_built |-> FALSE, calls |-> << >>]
            ELSE PairwiseStep(acc[i - 1], pairs[i], unique_groups, durations,
                              groups, censorship, alpha, t_0, bonferroni, kwargs)
    IN  Eager(<< pairs, alpha >>, acc[Len(pairs)])

PairwiseRaise(e) == [status |-> "error", error |-> e, result |-> None,
                     table_built |-> FALSE, calls |-> << >>]

\* lines 290-296
PairwiseGroups(unique_groups, durations, groups, censorship, alpha, t_0, bonferroni, kwargs) ==
    IF bonferroni /\ Len(unique_groups) < 2
    THEN PairwiseRaise("ZeroDivisionError")
    ELSE PairwiseLoop(combinations2(Len(unique_groups)), unique_groups,
                      durations, groups, censorship,
                      IF bonferroni THEN BonferroniAlpha(alpha, Len(unique_groups))
                      ELSE alpha,
                      t_0, bonferroni, kwargs)

\* lines 279-288
PairwiseReshape(durations, groups, censorship, alpha, t_0, bonferroni, kwargs) ==
    IF Len(groups) # Len(durations) \/ Len(censorship) # Len(durations)
    THEN PairwiseRaise("ValueError: cannot reshape array")
    ELSE PairwiseGroups(np_unique(groups), durations, groups, censorship,
                        alpha, t_0, bonferroni, kwargs)

pairwise_logrank_test(durations, groups, censorship, alpha, t_0, bonferroni, kwargs) ==
    PairwiseReshape(durations, groups,
                    IF censorship = None THEN Ones(Len(durations)) ELSE censorship[1],
                    alpha, t_0, bonferroni, kwargs)

(***************************** summary *************************************)
\* A name is modelled as the tuple of its parts: <<g1, g2>> for the pair
\* (g1, g2), <<x>> for the scalar x.  The key a row of the summary is sorted
\* by is its name, or <<position>> when the result has no names (the default
\* RangeIndex).
IndexKey(r, i) == IF r.name = None THEN << i - 1 >> ELSE r.name[1][i]

\* the order of sort_index on two keys: that of the scalars for a plain
\* index, lexicographic for the MultiIndex built from tuples
KeyLess(a, b) ==
    \/ \E i \in 1..Len(a) :
          /\ i <= Len(b)
          /\ a[i] < b[i]
          /\ \A q \in 1..(i - 1) : a[q] = b[q]
    \/ /\ Len(a) < Len(b)
       /\ \A q \in 1..Len(a) : a[q] = b[q]

\* StatisticalResult.summary: one row per entry, sorted by index (rows of
\* equal index keep their order)
summary(r) ==
    LET n == Len(r._test_statistic)
        rank(i) == Cardinality({ q \in 1..n :
                      \/ KeyLess(IndexKey(r, q), IndexKey(r, i))
                      \/ (~KeyLess(IndexKey(r, i), IndexKey(r, q)) /\ q < i) })
    IN  [pos \in 1..n |->
            LET i == CHOOSE q \in 1..n : rank(q) = pos - 1
            IN  [index |-> IndexKey(r, i), entry |-> i,
                 test_statistic |-> r._test_statistic[i], p |-> r._p_value[i]]]

(******************************* inputs ************************************)
\* the sequences over S of a length in lo..hi
Seqs(S, lo, hi) == UNION { [1..n -> S] : n \in lo..hi }

\* confidence levels inside (0, 1], and outside it
ValidAlphas == { << 19, 20 >>, One }
InvalidAlphas == { Zero, << -1, 1 >>, << 3, 2 >> }
Alphas == ValidAlphas \cup InvalidAlphas

\* horizons: -1 (all time), or a time
Horizons(maxT) == { -1 } \cup 1..(maxT - 1)

\* censorship flags for n individuals, or none given
Censorships(n) == { None } \cup { Some(x) : x \in [1..n -> {0, 1}] }

\* censorship flags of any length within one of n, or none given
AnyCensorships(n) == { None } \cup { Some(x) : x \in Seqs({0, 1}, n - 1, n + 1) }

\* the results + is applied to: of 0 to MaxEntries entries, named <<1>> to
\* <<MaxName>> or not, with one of three sets of metadata
Metadata ==
    { << >>, [alpha |-> << 19, 20 >>], [alpha |-> One, df |-> 1] }

Results ==
    UNION { { StatisticalResult([i \in 1..Len(u) |-> ChiSf(u[i], 1)], u, name, kw).result[1] :
                name \in { None } \cup { Some(x) : x \in [1..Len(u) -> { << k >> : k \in 1..MaxName }] },
                kw \in Metadata } :
            u \in Seqs({Zero, One}, 0, MaxEntries) }

(*************************** the state machine *****************************)
\* op: the entry point called; inp: its arguments; pc: "call" before the call
\* and "done" after it; out: what the call left (None before it).

\* multivariate_logrank_test on a dataset of 1 to MaxN individuals
InitEngine ==
    /\ op = "multivariate_logrank_test"
    /\ \E n \in 1..MaxN :
         \E d \in [1..n -> 1..MaxT], g \in [1..n -> 0..MaxLabel],
            c \in Censorships(n), t \in Horizons(MaxT) :
            inp = [durations |-> d, groups |-> g, censorship |-> c,
                   alpha |-> << 19, 20 >>, t_0 |-> t]
    /\ pc = "call"
    /\ out = None

\* logrank_test on two samples of 1 to MaxArm individuals, the censorship
\* flags of each given or not
InitLogrank ==
    /\ op = "logrank_test"
    /\ \E nA \in 1..MaxArm, nB \in 1..MaxArm :
         \E dA \in [1..nA -> 1..MaxArmT], dB \in [1..nB -> 1..MaxArmT],
            cA \in Censorships(nA), cB \in Censorships(nB), t \in { -1, 1 } :
            inp = [durations_A |-> dA, durations_B |-> dB,
                   censorship_A |-> cA, censorship_B |-> cB,
                   alpha |-> << 19, 20 >>, t_0 |-> t]
    /\ pc = "call"
    /\ out = None

\* logrank_test on two samples of 1 to MaxFlagsN individuals, the censorship
\* flags of each given or not, as many as its individuals or one more or less
InitMisaligned ==
    /\ op = "logrank_test"
    /\ \E nA \in 1..MaxFlagsN, nB \in 1..MaxFlagsN :
         \E dA \in [1..nA -> 1..2], dB \in [1..nB -> 1..2],
            cA \in AnyCensorships(nA), cB \in AnyCensorships(nB) :
            inp = [durations_A |-> dA, durations_B |-> dB,
                   censorship_A |-> cA, censorship_B |-> cB,
                   alpha |-> << 19, 20 >>, t_0 |-> -1]
    /\ pc = "call"
    /\ out = None

\* pairwise_logrank_test on a dataset of 1 to MaxPairN individuals
InitPairwise ==
    /\ op = "pairwise_logrank_test"
    /\ \E n \in 1..MaxPairN :
         \E d \in [1..n -> 1..MaxPairT], g \in [1..n -> 0..MaxPairLabel],
            c \in Censorships(n), a \in ValidAlphas, b \in BOOLEAN :
            inp = [durations |-> d, groups |-> g, censorship |-> c,
                   alpha |-> a, t_0 |-> -1, bonferroni |-> b]
    /\ pc = "call"
    /\ out = None

\* the engine and the pairwise test on arrays of 1 to MaxLenN entries each
InitLengths ==
    /\ op \in { "multivariate_logrank_test", "pairwise_logrank_test" }
    /\ \E d \in Seqs(1..2, 1, MaxLenN), g \in Seqs(0..1, 1, MaxLenN),
          c \in { None } \cup { Some(x) : x \in Seqs({0, 1}, 1, MaxLenN) } :
          inp = [durations |-> d, groups |-> g, censorship |-> c,
                 alpha |-> << 19, 20 >>, t_0 |-> -1, bonferroni |-> FALSE]
    /\ pc = "call"
    /\ out = None

\* the three tests with a confidence level inside or outside (0, 1]
InitAlpha ==
    /\ pc = "call"
    /\ out = None
    /\ \E a \in Alphas :
         \/ /\ op = "multivariate_logrank_test"
            /\ \E d \in [1..2 -> 1..2], g \in [1..2 -> 0..1] :
                  inp = [durations |-> d, groups |-> g, censorship |-> None,
                         alpha |-> a, t_0 |-> -1]
         \/ /\ op = "logrank_test"
            /\ \E dA \in [1..1 -> 1..2], dB \in [1..1 -> 1..2] :
                  inp = [durations_A |-> dA, durations_B |-> dB,
                         censorship_A |-> None, censorship_B |-> None,
                         alpha |-> a, t_0 |-> -1]
         \/ /\ op = "pairwise_logrank_test"
            /\ \E n \in 2..MaxAlphaN :
                 \E g \in [1..n -> 0..MaxAlphaLabel], b \in BOOLEAN :
                    /\ Cardinality(Range(g)) >= 2
                    /\ inp = [durations |-> [i \in 1..n |-> i], groups |-> g,
                              censorship |-> None, alpha |-> a, t_0 |-> -1,
                              bonferroni |-> b]

\* self + other
InitAdd ==
    /\ op = "__add__"
    /\ \E a \in Results, b \in Results : inp = [self |-> a, other |-> b]
    /\ pc = "call"
    /\ out = None

CallMultivariate ==
    /\ pc = "call"
    /\ op = "multivariate_logrank_test"
    /\ out' = multivariate_logrank_test(inp.durations, inp.groups, inp.censorship,
                                        inp.alpha, inp.t_0, << >>)
    /\ pc' = "done"
    /\ UNCHANGED << op, inp >>

CallLogrank ==
    /\ pc = "call"
    /\ op = "logrank_test"
    /\ out' = logrank_test(inp.durations_A, inp.durations_B, inp.censorship_A,
                           inp.censorship_B, inp.alpha, inp.t_0, << >>)
    /\ pc' = "done"
    /\ UNCHANGED << op, inp >>

CallPairwise ==
    /\ pc = "call"
    /\ op = "pairwise_logrank_test"
    /\ out' = pairwise_logrank_test(inp.durations, inp.groups, inp.censorship,
                                    inp.alpha, inp.t_0, inp.bonferroni, << >>)
    /\ pc' = "done"
    /\ UNCHANGED << op, inp >>

CallAdd ==
    /\ pc = "call"
    /\ op = "__add__"
    /\ out' = StatisticalResult__add__(inp.self, inp.other)
    /\ pc' = "done"
    /\ UNCHANGED << op, inp >>

Spec == InitEngine /\ [][CallMultivariate]_vars

SpecLogrank == InitLogrank /\ [][CallLogrank]_vars

SpecMisaligned == InitMisaligned /\ [][CallLogrank]_vars

SpecPairwise == InitPairwise /\ [][CallPairwise]_vars

SpecLengths == InitLengths /\ [][CallMultivariate \/ CallPairwise]_vars

SpecAlpha == InitAlpha /\ [][CallMultivariate \/ CallLogrank \/ CallPairwise]_vars

SpecAdd == InitAdd /\ [][CallAdd]_vars

(******************************* claims ************************************)
Done(name) == pc = "done" /\ op = name

\* the entries of x whose group is g, in order
Select(x, groups, g) ==
    LET sel[i \in 0..Len(x)] ==
            IF i = 0 THEN << >>
            ELSE IF groups[i] = g THEN Append(sel[i - 1], x[i]) ELSE sel[i - 1]
    IN  sel[Len(x)]

\* the number of distinct labels
NLabels(groups) == Cardinality(Range(groups))

\* the censorship flags given, or all observed
FlagsOr1(censorship, n) ==
    IF censorship = None THEN [i \in 1..n |-> 1] ELSE censorship[1]

\* the term of time step r in entry (j, l) of the covariance matrix
VarianceTerm(f, r, j, l) ==
    FSub(FMul(FMul(f.factor[r], FInt(f.n_ij[r][j])),
              FInt(IF j = l THEN f.n_i[r] ELSE 0)),
         FMul(FMul(f.factor[r], FInt(f.n_ij[r][j])), FInt(f.n_ij[r][l])))

\* C1: logrank_test returns the status, the test statistic and the p-value of
\* multivariate_logrank_test called on A followed by B, every A sample
\* labelled 0 and every B sample 1, the censorship flags defaulting to all
\* observed.
C1_LogrankIsEngineOnConcatenation ==
    Done("logrank_test") =>
        LET nA == Len(inp.durations_A)
            nB == Len(inp.durations_B)
            e  == multivariate_logrank_test(
                    inp.durations_A \o inp.durations_B,
                    [i \in 1..(nA + nB) |-> IF i <= nA THEN 0 ELSE 1],
                    Some(FlagsOr1(inp.censorship_A, nA) \o FlagsOr1(inp.censorship_B, nB)),
                    inp.alpha, inp.t_0, << >>)
        IN  /\ out.status = e.status
            /\ out.error = e.error
            /\ out.status = "ok" =>
                  /\ out.result[1]._test_statistic = e.result[1]._test_statistic
                  /\ out.result[1]._p_value = e.result[1]._p_value

\* a two-sample test returned, A's flags defaulted, B with a censored
\* individual, the statistic not zero
C1_Witness ==
    /\ Done("logrank_test")
    /\ out.status = "ok"
    /\ inp.censorship_A = None
    /\ inp.censorship_B # None
    /\ Len(inp.censorship_B[1]) = Len(inp.durations_B)
    /\ 0 \in Range(inp.censorship_B[1])
    /\ out.result[1]._test_statistic[1] # Zero

\* C2: for n individuals in k >= 2 groups, any censorship and any horizon,
\* the engine's vector Z, Z_j = N_j - sum over time steps of n_ij * d_i / n_i,
\* sums to zero over the groups and the "Sum is not zero" assertion does not
\* fail.
C2_ZSumsToZero ==
    (Done("multivariate_logrank_test") /\ NLabels(inp.groups) >= 2) =>
        /\ out.table_built
        /\ out.status = "ok"
        /\ LET f == out.factors[1]
           IN  /\ f.n_groups = NLabels(inp.groups)
               /\ \A j \in 1..f.n_groups :
                     f.Z_j[j] = FSub(FInt(f.N_j[j]),
                                     FSum([r \in 1..f.rows |->
                                             FDiv(FInt(f.n_ij[r][j] * f.d_i[r]),
                                                  FInt(f.n_i[r]))], f.rows))
               /\ FSum(f.Z_j, f.n_groups) = Zero

\* three groups, a censored individual, a horizon, and a Z that is not zero
C2_Witness ==
    /\ Done("multivariate_logrank_test")
    /\ out.status = "ok"
    /\ out.factors[1].n_groups = 3
    /\ inp.censorship # None
    /\ 0 \in Range(inp.censorship[1])
    /\ inp.t_0 # -1
    /\ \E j \in 1..3 : out.factors[1].Z_j[j] # Zero

\* C8: the k-by-k covariance matrix left by the diagonal correction and the
\* drop of the extra row and column has the entries
\* V[j][l] = sum over time steps of factor * n_ij * (n_i if j = l else 0)
\* - factor * n_ij * n_il; it is symmetric, its rows and columns sum to zero;
\* the matrix pseudo-inverted is its leading (k-1)-by-(k-1) block, taken with
\* the first k - 1 entries of Z.
C8_CovarianceMatrix ==
    (Done("multivariate_logrank_test") /\ out.table_built) =>
        LET f == out.factors[1]
            k == f.n_groups
            block == [a \in 1..(k - 1) |-> [b \in 1..(k - 1) |-> f.V[a][b]]]
        IN  /\ DOMAIN f.V = 1..k
            /\ \A j \in 1..k : DOMAIN f.V[j] = 1..k
            /\ \A j \in 1..k : \A l \in 1..k :
                  /\ f.V[j][l] = FSum([r \in 1..f.rows |-> VarianceTerm(f, r, j, l)],
                                      f.rows)
                  /\ f.V[j][l] = f.V[l][j]
            /\ \A j \in 1..k :
                  /\ FSum(f.V[j], k) = Zero
                  /\ FSum([l \in 1..k |-> f.V[l][j]], k) = Zero
            /\ f.V_reduced = block
            /\ f.U = QuadraticForm(f.Z_j, pinv(block, k - 1), k - 1)

\* three groups, an off-diagonal entry and the statistic not zero
C8_Witness ==
    /\ Done("multivariate_logrank_test")
    /\ out.status = "ok"
    /\ out.factors[1].n_groups = 3
    /\ out.factors[1].V[1][2] # Zero
    /\ out.factors[1].V[1][1] # Zero
    /\ out.factors[1].U # Zero

\* C9: at every time step n_i >= 1 and 0 <= d_i <= n_i, the weight
\* factor = [(n_i - d_i) / (n_i - 1)] * d_i / n_i^2 is finite and not negative,
\* with the ratio taken as 1 when n_i = 1; a step with n_i = 1 adds zero to
\* every entry of the covariance matrix, and no entry of it is nan or
\* infinite.
C9_FactorFinite ==
    (Done("multivariate_logrank_test") /\ out.table_built) =>
        LET f == out.factors[1]
        IN  /\ \A r \in 1..f.rows :
                  /\ f.n_i[r] >= 1
                  /\ 0 <= f.d_i[r]
                  /\ f.d_i[r] <= f.n_i[r]
                  /\ IsFinite(f.factor[r])
                  /\ FLeq(Zero, f.factor[r])
                  /\ f.factor[r] =
                        IF f.n_i[r] = 1 THEN FInt(f.d_i[r])
                        ELSE Rat((f.n_i[r] - f.d_i[r]) * f.d_i[r],
                                 (f.n_i[r] - 1) * f.n_i[r] * f.n_i[r])
                  /\ f.n_i[r] = 1 =>
                        \A j \in 1..f.n_groups : \A l \in 1..f.n_groups :
                            VarianceTerm(f, r, j, l) = Zero
            /\ \A j \in 1..f.n_groups : \A l \in 1..f.n_groups : IsFinite(f.V[j][l])

\* a last step with one individual at risk who has the event (0/0), and a
\* group without events
C9_Witness ==
    /\ Done("multivariate_logrank_test")
    /\ out.status = "ok"
    /\ LET f == out.factors[1]
       IN  /\ f.rows >= 2
           /\ f.n_i[f.rows] = 1
           /\ f.d_i[f.rows] = 1
           /\ \E j \in 1..f.n_groups : f.N_j[j] = 0

\* the pairs <<g1, g2>> named in a result, in order
PairNames(r) == r.name[1]

\* the pair a comes before the pair b
PairBefore(a, b) == a[1] < b[1] \/ (a[1] = b[1] /\ a[2] < b[2])

\* C3: for k >= 2 labels pairwise_logrank_test returns one result of
\* k * (k - 1) / 2 entries, one for every pair of distinct labels and none
\* twice, each computed from the samples of its two groups (the smaller
\* label's as sample A, the larger's as sample B), named (g1, g2) with
\* g1 < g2, in the order of the 2-combinations of the ascending labels.
C3_OneEntryPerPair ==
    (Done("pairwise_logrank_test") /\ NLabels(inp.groups) >= 2) =>
        /\ out.status = "ok"
        /\ LET r == out.result[1]
               k == NLabels(inp.groups)
               m == (k * (k - 1)) \div 2
               c == FlagsOr1(inp.censorship, Len(inp.durations))
           IN  /\ Len(PairNames(r)) = m
               /\ Len(r._test_statistic) = m
               /\ Len(r._p_value) = m
               /\ Len(out.calls) = m
               /\ \A i \in 1..m :
                     LET g1 == PairNames(r)[i][1]
                         g2 == PairNames(r)[i][2]
                         t  == logrank_test(Select(inp.durations, inp.groups, g1),
                                            Select(inp.durations, inp.groups, g2),
                                            Some(Select(c, inp.groups, g1)),
                                            Some(Select(c, inp.groups, g2)),
                                            out.calls[i].alpha, inp.t_0, << >>)
                     IN  /\ g1 \in Range(inp.groups)
                         /\ g2 \in Range(inp.groups)
                         /\ g1 < g2
                         /\ out.calls[i].durations = t.call.durations
                         /\ out.calls[i].censorship = t.call.censorship
                         /\ out.calls[i].groups = t.call.groups
                         /\ r._test_statistic[i] = t.result[1]._test_statistic[1]
                         /\ r._p_value[i] = t.result[1]._p_value[1]
               /\ \A i \in 1..m : \A j \in 1..m :
                     i < j => PairBefore(PairNames(r)[i], PairNames(r)[j])

\* three labels, the first individual's not the smallest, three entries with
\* a statistic that is not zero
C3_Witness ==
    /\ Done("pairwise_logrank_test")
    /\ out.status = "ok"
    /\ NLabels(inp.groups) = 3
    /\ inp.groups[1] > inp.groups[2]
    /\ PairNames(out.result[1]) = << << 0, 1 >>, << 0, 2 >>, << 1, 2 >> >>
    /\ \E i \in 1..3 : out.result[1]._test_statistic[i] # Zero

\* C4: with the Bonferroni flag every sub-test of pairwise_logrank_test over
\* k labels receives alpha' = 1 - (1 - alpha) / C(k, 2), computed once from
\* the caller's alpha; without the flag every sub-test receives the caller's
\* alpha.
C4_BonferroniOnce ==
    (Done("pairwise_logrank_test") /\ NLabels(inp.groups) >= 2) =>
        LET k == NLabels(inp.groups)
            m == (k * (k - 1)) \div 2
            expected == IF inp.bonferroni
                        THEN FSub(One, FDiv(FSub(One, inp.alpha), FInt(m)))
                        ELSE inp.alpha
        IN  /\ Len(out.calls) = m
            /\ \A i \in 1..m : out.calls[i].alpha = expected
            /\ out.status = "ok" => out.result[1]._kwargs["alpha"] = expected

\* three labels, the flag on, 0.95 given: each of the three sub-tests
\* receives 59/60
C4_Witness ==
    /\ Done("pairwise_logrank_test")
    /\ inp.bonferroni
    /\ inp.alpha = << 19, 20 >>
    /\ NLabels(inp.groups) = 3
    /\ Len(out.calls) = 3
    /\ \A i \in 1..3 : out.calls[i].alpha = << 59, 60 >>

\* the lengths of groups, durations and censorship are not all the same
LengthsDiffer ==
    \/ Len(inp.groups) # Len(inp.durations)
    \/ inp.censorship # None /\ Len(inp.censorship[1]) # Len(inp.durations)

\* C6: multivariate_logrank_test and pairwise_logrank_test raise an error
\* before the survival table is built, and return no result, when groups,
\* durations and censorship are not all of the same length.
C6_LengthsChecked ==
    (pc = "done" /\ LengthsDiffer) =>
        /\ out.status = "error"
        /\ out.result = None
        /\ ~out.table_built

\* the engine given censorship flags longer than the durations
C6_Witness ==
    /\ Done("multivariate_logrank_test")
    /\ inp.censorship # None
    /\ Len(inp.censorship[1]) > Len(inp.durations)
    /\ Len(inp.groups) = Len(inp.durations)
    /\ out.error = "AssertionError: inputs must be of the same length."

\* C7: an alpha outside (0, 1] is rejected with an error, and no result
\* returned, by multivariate_logrank_test, logrank_test and
\* pairwise_logrank_test, with the Bonferroni flag on or off.
C7_InvalidAlphaRejected ==
    (pc = "done" /\ inp.alpha \in InvalidAlphas) =>
        /\ out.status = "error"
        /\ out.result = None

\* C10: logrank_test raises an error whenever the censorship flags given for
\* a sample are not as many as the sample's durations.
C10_MisalignedRejected ==
    (/\ Done("logrank_test")
     /\ \/ inp.censorship_A # None /\ Len(inp.censorship_A[1]) # Len(inp.durations_A)
        \/ inp.censorship_B # None /\ Len(inp.censorship_B[1]) # Len(inp.durations_B))
    => out.status = "error"

\* C5: for a and b both named or both unnamed, a + b is a result whose
\* summary has the rows of a's and b's together, a's before b's, and whose
\* metadata has the keys of both, b's value on a key of both.
C5_AddConcatenates ==
    (Done("__add__") /\ (inp.self.name = None <=> inp.other.name = None)) =>
        /\ out.status = "ok"
        /\ LET a == inp.self
               b == inp.other
               r == out.result[1]
           IN  /\ Len(summary(r)) = Len(summary(a)) + Len(summary(b))
               /\ \A i \in 1..Len(summary(r)) : \A j \in 1..Len(summary(r)) :
                     (summary(r)[i].entry <= Len(a._test_statistic)
                      /\ summary(r)[j].entry > Len(a._test_statistic)) => i < j
               /\ DOMAIN r._kwargs = DOMAIN a._kwargs \cup DOMAIN b._kwargs
               /\ \A key \in DOMAIN r._kwargs :
                     r._kwargs[key] = IF key \in DOMAIN b._kwargs
                                      THEN b._kwargs[key] ELSE a._kwargs[key]

====
